---- MODULE Spec2Model ----
(***************************************************************************)
(* Model of cpp_to_rust_generator/src/rust_info.rs: the self-argument      *)
(* classifier, the overload compatibility checker and the caption engine   *)
(* of RustSingleMethod.                                                    *)
(*                                                                         *)
(* A Rust String is a sequence of one-character strings, so that joining,  *)
(* number formatting and underscores are computed, not assumed.            *)
(* Result<T> is Ok(v) or Err(e); Option<T> is <<>> (None) or <<v>> (Some). *)
(***************************************************************************)
EXTENDS Integers, Sequences, FiniteSets, TLC

VARIABLES
  m1,               \* the RustSingleMethod an operation is applied to (self)
  m2,               \* the other RustSingleMethod (other_method)
  caption_strategy, \* name_suffix argument
  all_self_args,    \* name_suffix argument: the family's self-argument kinds
  index,            \* name_suffix argument
  pc,               \* position of the driver
  result,           \* value returned by the last operation
  result2,          \* value name_suffix returned for m2, the sibling variant
  orig,             \* m1 as it was before an argument type was changed
  singles,          \* the RustSingleMethod records of one family, in order
  method,           \* the RustMethod assembled or rewritten
  params_trait,     \* the MethodParametersTrait declaration of method, if any
  flat,             \* the variants read back from method and params_trait
  table,            \* add_rust_cross_references argument
  before,           \* method as it was before the cross-reference pass
  native_enum,      \* the values of a native enumeration, in declaration order
  type_info         \* the RustTypeWrapperKind built from native_enum

\* The variables of the classifier, the checker and the caption engine.
core == <<m1, m2, caption_strategy, all_self_args, index, pc, result, result2, orig>>

\* The variables of the assembler, the linker and the type descriptor builder.
aux == <<singles, method, params_trait, flat, table, before, native_enum, type_info>>

vars == <<core, aux>>

\* Nothing assembled, linked or built.
AuxIdle ==
  /\ singles = <<>>
  /\ method = <<>>
  /\ params_trait = <<>>
  /\ flat = <<>>
  /\ table = <<>>
  /\ before = <<>>
  /\ native_enum = <<>>
  /\ type_info = <<>>

(***************************** bounds **************************************)
\* Largest number of arguments after the optional receiver.
MaxArgs == 1
\* Largest family index handed to name_suffix.
MaxIndex == 11

(***************************** strings *************************************)
S_self == <<"s", "e", "l", "f">>
S_x == <<"x">>
S_y == <<"y">>
S_marker == <<"a", "l", "l", "o", "c", "a", "t", "i", "o", "n", "_",
              "p", "l", "a", "c", "e", "_", "m", "a", "r", "k", "e", "r">>
S_unsafe == <<"u", "n", "s", "a", "f", "e">>
S_static == <<"s", "t", "a", "t", "i", "c">>
S_mut == <<"m", "u", "t">>
S_no_args == <<"n", "o", "_", "a", "r", "g", "s">>
S_underscore == <<"_">>

Digits == <<"0", "1", "2", "3", "4", "5", "6", "7", "8", "9">>

RECURSIVE to_string(_)
\* usize::to_string: decimal digits, most significant first, no padding.
to_string(n) ==
  IF n < 10 THEN <<Digits[n + 1]>>
  ELSE to_string(n \div 10) \o <<Digits[(n % 10) + 1]>>

RECURSIVE join(_, _)
\* JoinWithSeparator::join over a sequence of strings.
join(items, sep) ==
  IF Len(items) = 0 THEN <<>>
  ELSE IF Len(items) = 1 THEN items[1]
  ELSE items[1] \o sep \o join(Tail(items), sep)

(***************************** Result / Option *****************************)
Ok(v) == [ok |-> TRUE, val |-> v]
Err(e) == [ok |-> FALSE, err |-> e]
None == <<>>
Some(v) == <<v>>

InvalidSelfArgument == "invalid self argument type"
UnsupportedSelfArgCombination == "unsupported self arg kinds combination"
UnexpectedTypeShape == "unexpected uncommon Rust type"
UnsupportedCaptionContext == "can't generate Rust method caption for a trait impl method"

(***************************** types ***************************************)
\* RustMethodSelfArgKind
RustMethodSelfArgKind == {"Static", "ConstRef", "MutRef", "Value"}

\* RustMethodCaptionStrategy::all()
RustMethodCaptionStrategy == {"NoCaption", "UnsafeOnly", "ArgTypes", "ArgNames", "Index"}

\* RustType::Common { base, is_const, indirection, .. }
Common(base, indirection, is_const) ==
  [common |-> TRUE, base |-> base, indirection |-> indirection, is_const |-> is_const]
\* A RustType that is not RustType::Common.
EmptyTuple ==
  [common |-> FALSE, base |-> <<>>, indirection |-> "None", is_const |-> FALSE]

\* CompleteType: the C++ type and the Rust API type of one argument.
CompleteType(cpp, rust) == [cpp_type |-> cpp, rust_api_type |-> rust]

\* RustMethodArgument
RustMethodArgument(name, type, ffi) ==
  [name |-> name, argument_type |-> type, ffi_index |-> ffi]

\* RustMethodScope
ScopeFree == [kind |-> "Free", target_type |-> EmptyTuple]
ScopeTraitImpl == [kind |-> "TraitImpl", target_type |-> EmptyTuple]
ScopeImpl(t) == [kind |-> "Impl", target_type |-> t]

\* RustSingleMethod (the fields the modelled operations read)
RustSingleMethod(scope, is_unsafe, name, arguments) ==
  [scope |-> scope, is_unsafe |-> is_unsafe, name |-> name, arguments |-> arguments]

(***************************** collaborators *******************************)
\* C++ types are tokens; the numeric ones may denote the same type.
NumericCppTypes == {"int", "qint32"}

\* CppType::can_be_the_same_as: the overload-equivalence rule of the native
\* type system.  Equal types are the same; two numeric types may be.
can_be_the_same_as(t1, t2) ==
  t1 = t2 \/ (t1 \in NumericCppTypes /\ t2 \in NumericCppTypes)

\* RustType::caption(context): the caption of one argument type.
caption(t, context) ==
  IF ~t.common THEN Ok(<<"e", "m", "p", "t", "y">>)
  ELSE Ok(t.base
          \o (IF t.indirection = "None" \/ t.is_const THEN <<>> ELSE <<"_">> \o S_mut)
          \o (CASE t.indirection = "Ref" -> <<"_", "r", "e", "f">>
                [] t.indirection = "Ptr" -> <<"_", "p", "t", "r">>
                [] OTHER -> <<>>))

(***************************** detect_self_arg_kind ************************)
\* A classifier that looks for the receiver at every position, not at 0 only.
detect_self_arg_kind_any_position(args) ==
  IF \E i \in 1..Len(args) : args[i].name = S_self
  THEN LET i == CHOOSE j \in 1..Len(args) :
                  args[j].name = S_self /\ \A k \in 1..(j - 1) : args[k].name # S_self
           t == args[i].argument_type.rust_api_type
       IN IF t.common
          THEN CASE t.indirection = "Ref" ->
                      IF t.is_const THEN Ok("ConstRef") ELSE Ok("MutRef")
                 [] t.indirection = "None" -> Ok("Value")
                 [] OTHER -> Err(InvalidSelfArgument)
          ELSE Err(InvalidSelfArgument)
  ELSE Ok("Static")

detect_self_arg_kind(args) ==
  IF Len(args) > 0
  THEN LET arg == args[1]
           t == arg.argument_type.rust_api_type
       IN IF arg.name = S_self
          THEN IF t.common
               THEN CASE t.indirection = "Ref" ->
                           IF t.is_const THEN Ok("ConstRef") ELSE Ok("MutRef")
                      [] t.indirection = "None" -> Ok("Value")
                      [] OTHER -> Err(InvalidSelfArgument)
               ELSE Err(InvalidSelfArgument)
          ELSE Ok("Static")
  ELSE Ok("Static")

\* RustSingleMethod::self_arg_kind
self_arg_kind(self) == detect_self_arg_kind(self.arguments)

(***************************** can_be_overloaded_with **********************)
\* The closure without its allocation place marker clause.
args_match_no_marker(arg1, arg2) ==
  can_be_the_same_as(arg1.argument_type.cpp_type, arg2.argument_type.cpp_type)

\* The closure handed to all() at one zipped position.
args_match(arg1, arg2) ==
  /\ can_be_the_same_as(arg1.argument_type.cpp_type, arg2.argument_type.cpp_type)
  /\ ~(arg1.name = S_marker /\ arg2.name = S_marker /\ arg1 # arg2)

\* The checker with any() in place of all().
can_be_overloaded_with_any(self, other_method) ==
  IF self.is_unsafe # other_method.is_unsafe THEN Ok(FALSE)
  ELSE LET k1 == self_arg_kind(self)
           k2 == self_arg_kind(other_method)
       IN IF ~k1.ok THEN k1
          ELSE IF ~k2.ok THEN k2
          ELSE IF k1.val # k2.val THEN Ok(FALSE)
          ELSE IF /\ Len(self.arguments) = Len(other_method.arguments)
                  /\ \E i \in 1..Len(self.arguments) :
                       args_match(self.arguments[i], other_method.arguments[i])
               THEN Ok(FALSE)
               ELSE Ok(TRUE)

\* The checker with the answers of its two early returns inverted.
can_be_overloaded_with_early_true(self, other_method) ==
  IF self.is_unsafe # other_method.is_unsafe THEN Ok(TRUE)
  ELSE LET k1 == self_arg_kind(self)
           k2 == self_arg_kind(other_method)
       IN IF ~k1.ok THEN k1
          ELSE IF ~k2.ok THEN k2
          ELSE IF k1.val # k2.val THEN Ok(TRUE)
          ELSE IF /\ Len(self.arguments) = Len(other_method.arguments)
                  /\ \A i \in 1..Len(self.arguments) :
                       args_match(self.arguments[i], other_method.arguments[i])
               THEN Ok(FALSE)
               ELSE Ok(TRUE)

can_be_overloaded_with(self, other_method) ==
  IF self.is_unsafe # other_method.is_unsafe THEN Ok(FALSE)
  ELSE LET k1 == self_arg_kind(self)
           k2 == self_arg_kind(other_method)
       IN IF ~k1.ok THEN k1
          ELSE IF ~k2.ok THEN k2
          ELSE IF k1.val # k2.val THEN Ok(FALSE)
          ELSE IF /\ Len(self.arguments) = Len(other_method.arguments)
                  /\ \A i \in 1..Len(self.arguments) :
                       args_match(self.arguments[i], other_method.arguments[i])
               THEN Ok(FALSE)
               ELSE Ok(TRUE)

(***************************** name_suffix *********************************)
\* The tag without the failure for a Value variant.
self_arg_kind_caption_value_untagged(kind, kinds) ==
  IF Cardinality(kinds) = 1 \/ kind = "ConstRef" THEN Ok(None)
  ELSE IF kind = "Static" THEN Ok(Some(S_static))
  ELSE IF kind = "MutRef"
       THEN IF "ConstRef" \in kinds THEN Ok(Some(S_mut)) ELSE Ok(None)
  ELSE Ok(None)

\* The tag without the test for a family of one kind.
self_arg_kind_caption_no_single(kind, kinds) ==
  IF kind = "ConstRef" THEN Ok(None)
  ELSE IF kind = "Static" THEN Ok(Some(S_static))
  ELSE IF kind = "MutRef"
       THEN IF "ConstRef" \in kinds THEN Ok(Some(S_mut)) ELSE Ok(None)
  ELSE Err(UnsupportedSelfArgCombination)

\* Lines 316-329: the self-argument tag, None or Some(tag), or the failure.
self_arg_kind_caption(kind, kinds) ==
  IF Cardinality(kinds) = 1 \/ kind = "ConstRef" THEN Ok(None)
  ELSE IF kind = "Static" THEN Ok(Some(S_static))
  ELSE IF kind = "MutRef"
       THEN IF "ConstRef" \in kinds THEN Ok(Some(S_mut)) ELSE Ok(None)
  ELSE Err(UnsupportedSelfArgCombination)

\* The captioning context with the method's own name for a trait impl method.
caption_context_trait_impl_named(self) ==
  CASE self.scope.kind = "Impl" ->
         IF self.scope.target_type.common
         THEN Ok(self.scope.target_type.base)
         ELSE Err(UnexpectedTypeShape)
    [] OTHER -> Ok(self.name)

\* Lines 347-359: the captioning context of the ArgTypes strategy.
caption_context(self) ==
  CASE self.scope.kind = "Free" -> Ok(self.name)
    [] self.scope.kind = "Impl" ->
         IF self.scope.target_type.common
         THEN Ok(self.scope.target_type.base)
         ELSE Err(UnexpectedTypeShape)
    [] OTHER -> Err(UnsupportedCaptionContext)

\* MapIfOk::map_if_ok: the first failure, or all the values.
map_if_ok(results) ==
  IF \E i \in 1..Len(results) : ~results[i].ok
  THEN results[CHOOSE i \in 1..Len(results) :
                 /\ ~results[i].ok
                 /\ \A j \in 1..(i - 1) : results[j].ok]
  ELSE Ok([i \in 1..Len(results) |-> results[i].val])

\* The strategy's caption with a one-based index.
other_caption_one_based(self, strategy, idx) ==
  CASE strategy = "NoCaption" -> Ok(None)
    [] strategy = "Index" -> Ok(Some(to_string(idx + 1)))
    [] strategy = "ArgNames" ->
         IF Len(self.arguments) = 0 THEN Ok(Some(S_no_args))
         ELSE Ok(Some(join([i \in 1..Len(self.arguments) |-> self.arguments[i].name],
                           S_underscore)))
    [] strategy = "ArgTypes" ->
         LET context == caption_context(self) IN
         IF ~context.ok THEN context
         ELSE IF Len(self.arguments) = 0 THEN Ok(Some(S_no_args))
         ELSE LET kept == SelectSeq(self.arguments, LAMBDA t : t.name # S_self)
                  captions == map_if_ok([i \in 1..Len(kept) |->
                                caption(kept[i].argument_type.rust_api_type, context.val)])
              IN IF ~captions.ok THEN captions
                 ELSE Ok(Some(join(captions.val, S_underscore)))

\* Lines 330-373: the strategy's caption, None or Some(caption), or the failure.
other_caption(self, strategy, idx) ==
  CASE strategy = "NoCaption" -> Ok(None)
    [] strategy = "Index" -> Ok(Some(to_string(idx)))
    [] strategy = "ArgNames" ->
         IF Len(self.arguments) = 0 THEN Ok(Some(S_no_args))
         ELSE Ok(Some(join([i \in 1..Len(self.arguments) |-> self.arguments[i].name],
                           S_underscore)))
    [] strategy = "ArgTypes" ->
         LET context == caption_context(self) IN
         IF ~context.ok THEN context
         ELSE IF Len(self.arguments) = 0 THEN Ok(Some(S_no_args))
         ELSE LET kept == SelectSeq(self.arguments, LAMBDA t : t.name # S_self)
                  captions == map_if_ok([i \in 1..Len(kept) |->
                                caption(kept[i].argument_type.rust_api_type, context.val)])
              IN IF ~captions.ok THEN captions
                 ELSE Ok(Some(join(captions.val, S_underscore)))

\* name_suffix with the strategy's caption put before the self-argument tag.
name_suffix_tag_last(self, strategy, kinds, idx) ==
  IF strategy = "UnsafeOnly"
  THEN Ok(IF self.is_unsafe THEN Some(S_unsafe) ELSE None)
  ELSE LET kind == self_arg_kind(self) IN
       IF ~kind.ok THEN kind
       ELSE LET tag == self_arg_kind_caption(kind.val, kinds) IN
            IF ~tag.ok THEN tag
            ELSE LET other == other_caption(self, strategy, idx) IN
                 IF ~other.ok THEN other
                 ELSE LET key_caption_items == other.val \o tag.val IN
                      IF Len(key_caption_items) = 0 THEN Ok(None)
                      ELSE Ok(Some(join(key_caption_items, S_underscore)))

\* name_suffix without the test for an empty list of caption items.
name_suffix_no_empty_test(self, strategy, kinds, idx) ==
  IF strategy = "UnsafeOnly"
  THEN Ok(IF self.is_unsafe THEN Some(S_unsafe) ELSE None)
  ELSE LET kind == self_arg_kind(self) IN
       IF ~kind.ok THEN kind
       ELSE LET tag == self_arg_kind_caption(kind.val, kinds) IN
            IF ~tag.ok THEN tag
            ELSE LET other == other_caption(self, strategy, idx) IN
                 IF ~other.ok THEN other
                 ELSE Ok(Some(join(tag.val \o other.val, S_underscore)))

\* name_suffix that takes a receiver it cannot classify for Static.
name_suffix_kind_or_static(self, strategy, kinds, idx) ==
  IF strategy = "UnsafeOnly"
  THEN Ok(IF self.is_unsafe THEN Some(S_unsafe) ELSE None)
  ELSE LET kind == IF self_arg_kind(self).ok THEN self_arg_kind(self) ELSE Ok("Static") IN
       LET tag == self_arg_kind_caption(kind.val, kinds) IN
            IF ~tag.ok THEN tag
            ELSE LET other == other_caption(self, strategy, idx) IN
                 IF ~other.ok THEN other
                 ELSE LET key_caption_items == tag.val \o other.val IN
                      IF Len(key_caption_items) = 0 THEN Ok(None)
                      ELSE Ok(Some(join(key_caption_items, S_underscore)))

name_suffix(self, strategy, kinds, idx) ==
  IF strategy = "UnsafeOnly"
  THEN Ok(IF self.is_unsafe THEN Some(S_unsafe) ELSE None)
  ELSE LET kind == self_arg_kind(self) IN
       IF ~kind.ok THEN kind
       ELSE LET tag == self_arg_kind_caption(kind.val, kinds) IN
            IF ~tag.ok THEN tag
            ELSE LET other == other_caption(self, strategy, idx) IN
                 IF ~other.ok THEN other
                 ELSE LET key_caption_items == tag.val \o other.val IN
                      IF Len(key_caption_items) = 0 THEN Ok(None)
                      ELSE Ok(Some(join(key_caption_items, S_underscore)))

(***************************** inputs **************************************)
SeqsUpTo(S, n) == UNION {[1..k -> S] : k \in 0..n}

B_point == <<"p", "t">>
B_int == <<"i", "n", "t">>
B_i32 == <<"i", "3", "2">>
B_string == <<"s", "t", "r">>
B_as_struct == <<"A", "s", "S", "t", "r", "u", "c", "t">>
B_as_box == <<"A", "s", "B", "o", "x">>
FnName == <<"f">>

\* RustTypeIndirection: Ref, None and one of the other forms.
Indirections == {"None", "Ref", "Ptr"}

\* Every Rust API type an argument at position 0 may carry.
AllRustTypes ==
  {Common(B_point, i, c) : i \in Indirections, c \in BOOLEAN} \cup {EmptyTuple}

T_const_ref == CompleteType("QPoint const&", Common(B_point, "Ref", TRUE))
T_mut_ref == CompleteType("QPoint&", Common(B_point, "Ref", FALSE))
T_value == CompleteType("QPoint", Common(B_point, "None", FALSE))
T_ptr == CompleteType("QPoint*", Common(B_point, "Ptr", FALSE))
T_int == CompleteType("int", Common(B_int, "None", FALSE))
T_qint32 == CompleteType("qint32", Common(B_i32, "None", FALSE))
T_string == CompleteType("QString const&", Common(B_string, "Ref", TRUE))
T_as_struct == CompleteType("void", Common(B_as_struct, "None", FALSE))
T_as_box == CompleteType("void", Common(B_as_box, "None", FALSE))

\* The receivers: an argument named self, by const reference, by mutable
\* reference, by value, and by raw pointer (not a valid receiver).
Receivers ==
  {RustMethodArgument(S_self, t, Some(0)) : t \in {T_const_ref, T_mut_ref, T_value, T_ptr}}

\* Absent or present receiver, as the head of an argument list.
ReceiverHeads == {<<>>} \cup {<<r>> : r \in Receivers}

\* Ordinary arguments and the two allocation place markers.
PlainArgs ==
  {RustMethodArgument(S_x, t, Some(1)) : t \in {T_int, T_qint32, T_string}}
  \cup {RustMethodArgument(S_marker, t, None) : t \in {T_as_struct, T_as_box}}

\* The types ChangeArgumentType may put in place of an argument's type.
ChangeTypes ==
  {T_const_ref, T_mut_ref, T_value, T_ptr, T_int, T_qint32, T_string, T_as_struct, T_as_box}

\* Inputs of the classifier: any name and any type at any position.
ClassifyArgs ==
  {RustMethodArgument(n, CompleteType("QPoint", t), None) :
     n \in {S_self, S_x}, t \in AllRustTypes}

ClassifyMethods ==
  {RustSingleMethod(ScopeFree, u, FnName, a) :
     u \in BOOLEAN, a \in SeqsUpTo(ClassifyArgs, MaxArgs + 1)}

\* Inputs of the compatibility checker.
OverloadMethods ==
  {RustSingleMethod(ScopeFree, u, FnName, h \o t) :
     u \in BOOLEAN, h \in ReceiverHeads, t \in SeqsUpTo(PlainArgs, MaxArgs)}

NoMethod == RustSingleMethod(ScopeFree, FALSE, FnName, <<>>)

(***************************** classifier run ******************************)
InitClassify ==
  /\ m1 \in ClassifyMethods
  /\ m2 = NoMethod
  /\ caption_strategy = "NoCaption"
  /\ all_self_args = {}
  /\ index = 0
  /\ pc = "init"
  /\ result = None
  /\ result2 = None
  /\ orig = m1
  /\ AuxIdle

\* m1.self_arg_kind()
SelfArgKind ==
  /\ pc = "init"
  /\ result' = self_arg_kind(m1)
  /\ pc' = "classified"
  /\ UNCHANGED <<m1, m2, caption_strategy, all_self_args, index, result2, orig>>
  /\ UNCHANGED aux

NextClassify == SelfArgKind

SpecClassify == InitClassify /\ [][NextClassify]_vars

(***************************** checker run *********************************)
InitOverload ==
  /\ m1 \in OverloadMethods
  /\ m2 \in OverloadMethods
  /\ caption_strategy = "NoCaption"
  /\ all_self_args = {}
  /\ index = 0
  /\ pc = "init"
  /\ result = None
  /\ result2 = None
  /\ orig = m1
  /\ AuxIdle

\* m1.can_be_overloaded_with(&m2), first on the pair as given and then again
\* after one argument type of m1 was changed.
CanBeOverloadedWith ==
  /\ pc \in {"init", "changed"}
  /\ result' = can_be_overloaded_with(m1, m2)
  /\ pc' = IF pc = "init" THEN "checked" ELSE "rechecked"
  /\ UNCHANGED <<m1, m2, caption_strategy, all_self_args, index, result2, orig>>
  /\ UNCHANGED aux

\* The caller replaces the type of argument i of m1, after the checker
\* answered Ok(false) for the pair; everything else stays as it was.
ChangeArgumentType ==
  /\ pc = "checked"
  /\ result = Ok(FALSE)
  /\ \E i \in 1..Len(m1.arguments) : \E t \in ChangeTypes :
       /\ t # m1.arguments[i].argument_type
       /\ m1' = [m1 EXCEPT !.arguments[i].argument_type = t]
  /\ orig' = m1
  /\ pc' = "changed"
  /\ UNCHANGED <<m2, caption_strategy, all_self_args, index, result, result2>>
  /\ UNCHANGED aux

NextOverload == CanBeOverloadedWith \/ ChangeArgumentType

SpecOverload == InitOverload /\ [][NextOverload]_vars

(***************************** caption run *********************************)
A_x == RustMethodArgument(S_x, T_int, Some(1))
A_y == RustMethodArgument(S_y, T_string, Some(2))

\* Arguments after the receiver of the methods that get captioned.
SuffixArgs == {A_x, A_y}

\* RustMethodScope: free, trait impl, impl on a common and on another type.
Scopes ==
  {ScopeFree, ScopeTraitImpl, ScopeImpl(Common(B_point, "None", FALSE)), ScopeImpl(EmptyTuple)}

SuffixMethods ==
  {RustSingleMethod(s, u, FnName, h \o t) :
     s \in Scopes, u \in BOOLEAN, h \in ReceiverHeads, t \in SeqsUpTo(SuffixArgs, MaxArgs)}

\* The self-argument kinds of the variants ms that have a valid receiver.
KindsOf(ms) == {self_arg_kind(m).val : m \in {n \in ms : self_arg_kind(n).ok}}

\* The kind sets a family holding the variants ms can have: the caller
\* collects the set from the family's variants, these among them.
FamilyKindSets(ms) ==
  {K \in SUBSET RustMethodSelfArgKind : K # {} /\ KindsOf(ms) \subseteq K}

InitSuffix ==
  /\ m1 \in SuffixMethods
  /\ m2 = NoMethod
  /\ caption_strategy \in RustMethodCaptionStrategy
  /\ all_self_args \in FamilyKindSets({m1})
  /\ index \in 0..MaxIndex
  /\ pc = "init"
  /\ result = None
  /\ result2 = None
  /\ orig = m1
  /\ AuxIdle

\* m1.name_suffix(&caption_strategy, &all_self_args, index)
NameSuffix ==
  /\ pc = "init"
  /\ result' = name_suffix(m1, caption_strategy, all_self_args, index)
  /\ pc' = "captioned"
  /\ UNCHANGED <<m1, m2, caption_strategy, all_self_args, index, result2, orig>>
  /\ UNCHANGED aux

NextSuffix == NameSuffix

SpecSuffix == InitSuffix /\ [][NextSuffix]_vars

(***************************** family run **********************************)
\* Two variants of one family, captioned one after the other with the
\* family's strategy and kind set, at the indices index and index + 1.
FamilyMethods ==
  {RustSingleMethod(ScopeFree, FALSE, FnName, h \o t) :
     h \in ReceiverHeads, t \in SeqsUpTo(SuffixArgs, MaxArgs)}

InitFamily ==
  /\ m1 \in FamilyMethods
  /\ m2 \in FamilyMethods
  /\ caption_strategy \in RustMethodCaptionStrategy
  /\ all_self_args \in FamilyKindSets({m1, m2})
  /\ index = 0
  /\ pc = "init"
  /\ result = None
  /\ result2 = None
  /\ orig = m1
  /\ AuxIdle

NameSuffixFirst ==
  /\ pc = "init"
  /\ result' = name_suffix(m1, caption_strategy, all_self_args, index)
  /\ pc' = "first"
  /\ UNCHANGED <<m1, m2, caption_strategy, all_self_args, index, result2, orig>>
  /\ UNCHANGED aux

NameSuffixSecond ==
  /\ pc = "first"
  /\ result2' = name_suffix(m2, caption_strategy, all_self_args, index + 1)
  /\ pc' = "captioned"
  /\ UNCHANGED <<m1, m2, caption_strategy, all_self_args, index, result, orig>>
  /\ UNCHANGED aux

NextFamily == NameSuffixFirst \/ NameSuffixSecond

SpecFamily == InitFamily /\ [][NextFamily]_vars

(***************************** classifier: C1 ******************************)
\* The kind of receiver the Rust API type of an argument named self stands for.
ReceiverForm(t) ==
  IF ~t.common THEN "other"
  ELSE CASE t.indirection = "Ref" /\ t.is_const -> "const reference"
         [] t.indirection = "Ref" /\ ~t.is_const -> "reference"
         [] t.indirection = "None" -> "no indirection"
         [] OTHER -> "other"

\* C1: the classification is decided by argument 0 alone: Static for an empty
\* list or an argument 0 not named self; for an argument 0 named self,
\* ConstRef for a const reference, MutRef for a non-const reference, Value
\* for no indirection and the failure InvalidSelfArgument for anything else.
C1_ClassifiedByArgumentZero ==
  pc = "classified" =>
    IF Len(m1.arguments) = 0 \/ Head(m1.arguments).name # S_self
    THEN result = Ok("Static")
    ELSE LET form == ReceiverForm(Head(m1.arguments).argument_type.rust_api_type) IN
         /\ form = "const reference" => result = Ok("ConstRef")
         /\ form = "reference" => result = Ok("MutRef")
         /\ form = "no indirection" => result = Ok("Value")
         /\ form = "other" => result = Err(InvalidSelfArgument)

\* A raw pointer receiver followed by an argument named self that is a const
\* reference: the classifier failed, deciding on argument 0.
C1_Witness ==
  /\ pc = "classified"
  /\ Len(m1.arguments) = 2
  /\ m1.arguments[1].name = S_self
  /\ m1.arguments[1].argument_type.rust_api_type = Common(B_point, "Ptr", FALSE)
  /\ m1.arguments[2].name = S_self
  /\ m1.arguments[2].argument_type.rust_api_type = Common(B_point, "Ref", TRUE)
  /\ result = Err(InvalidSelfArgument)

(***************************** checker: C2, C3, C4 *************************)
KindsValid(a, b) == self_arg_kind(a).ok /\ self_arg_kind(b).ok

\* Every argument pair is substitutable under the native overload rule.
PairwiseSubstitutable(a, b) ==
  /\ Len(a.arguments) = Len(b.arguments)
  /\ \A i \in 1..Len(a.arguments) :
       can_be_the_same_as(a.arguments[i].argument_type.cpp_type,
                          b.arguments[i].argument_type.cpp_type)

\* Equal unsafety, equal self-argument kind, equal count, substitutable types.
SameShape(a, b) ==
  /\ a.is_unsafe = b.is_unsafe
  /\ KindsValid(a, b)
  /\ self_arg_kind(a) = self_arg_kind(b)
  /\ PairwiseSubstitutable(a, b)

\* Some position holds two differing arguments named allocation_place_marker.
MarkersDiffer(a, b) ==
  \E i \in 1..Len(a.arguments) :
    /\ i <= Len(b.arguments)
    /\ a.arguments[i].name = S_marker
    /\ b.arguments[i].name = S_marker
    /\ a.arguments[i] # b.arguments[i]

\* C2 as claimed: every pair of the same shape collides (Ok(false)), also
\* when two allocation place markers at one position differ.
C2_Original ==
  (pc = "checked" /\ SameShape(m1, m2)) => result = Ok(FALSE)

\* C2 as amended: a pair of the same shape collides (Ok(false)) unless two
\* allocation place markers at one position differ; then it is Ok(true).
C2_CollideUnlessMarkersDiffer ==
  (pc = "checked" /\ SameShape(m1, m2)) => result = Ok(MarkersDiffer(m1, m2))

\* Two methods on a const receiver whose second arguments are the distinct
\* but substitutable int and qint32: they collide.
C2_Witness ==
  /\ pc = "checked"
  /\ SameShape(m1, m2)
  /\ Len(m1.arguments) = 2
  /\ m1.arguments[1].name = S_self
  /\ m1.arguments[2].argument_type = T_int
  /\ m2.arguments[2].argument_type = T_qint32
  /\ result = Ok(FALSE)

\* The one argument of m1 whose type was changed is not substitutable for
\* its counterpart in m2, and the pair was of the same shape before.
ChangedToNonSubstitutable ==
  /\ pc = "rechecked"
  /\ SameShape(orig, m2)
  /\ \E i \in 1..Len(m1.arguments) :
       /\ m1.arguments[i].argument_type # orig.arguments[i].argument_type
       /\ ~can_be_the_same_as(m1.arguments[i].argument_type.cpp_type,
                              m2.arguments[i].argument_type.cpp_type)

\* C3 as claimed: changing one argument type of a colliding pair to a
\* non-substitutable type, at any position, gives Ok(true).
C3_Original ==
  ChangedToNonSubstitutable => result = Ok(TRUE)

\* C3 as amended: it gives Ok(true) when the change leaves the variant's
\* self-argument kind as it was, as every change at a position other than a
\* receiver at position 0 does; a change that gives the receiver another
\* kind leaves Ok(false), one that makes it invalid gives the failure.
C3_FlipsWhenKindKept ==
  ChangedToNonSubstitutable =>
    /\ self_arg_kind(m1) = self_arg_kind(orig) => result = Ok(TRUE)
    /\ (self_arg_kind(m1).ok /\ self_arg_kind(m1) # self_arg_kind(orig))
         => result = Ok(FALSE)
    /\ ~self_arg_kind(m1).ok => result = Err(InvalidSelfArgument)
    /\ (\E i \in 2..Len(m1.arguments) :
          m1.arguments[i].argument_type # orig.arguments[i].argument_type)
         => result = Ok(TRUE)

\* The type of the const receiver itself was changed to another const
\* reference type, and the pair now coexists.
C3_Witness ==
  /\ ChangedToNonSubstitutable
  /\ orig.arguments[1].name = S_self
  /\ orig.arguments[1].argument_type = T_const_ref
  /\ m1.arguments[1].argument_type = T_string
  /\ self_arg_kind(m1) = Ok("ConstRef")
  /\ result = Ok(TRUE)

\* The unsafety flags differ, or both receivers are valid and of different kinds.
FlagsOrKindsDiffer ==
  \/ m1.is_unsafe # m2.is_unsafe
  \/ (KindsValid(m1, m2) /\ self_arg_kind(m1) # self_arg_kind(m2))

\* C4 as claimed: a pair that differs in unsafety or self-argument kind gets
\* the answer opposite to a colliding pair's Ok(false).
C4_Original ==
  (pc = "checked" /\ FlagsOrKindsDiffer) => result = Ok(TRUE)

\* C4 as amended: such a pair gets Ok(false), the answer a colliding pair
\* gets, whatever the argument lists are.
C4_MismatchGivesFalse ==
  (pc = "checked" /\ FlagsOrKindsDiffer) => result = Ok(FALSE)

\* An unsafe and a safe method whose argument lists have different lengths:
\* the answer is Ok(false).
C4_Witness ==
  /\ pc = "checked"
  /\ m1.is_unsafe /\ ~m2.is_unsafe
  /\ self_arg_kind(m1) = self_arg_kind(m2)
  /\ Len(m1.arguments) # Len(m2.arguments)
  /\ result = Ok(FALSE)

(***************************** captions: C5 .. C10 *************************)
Captioned == pc = "captioned"

\* The strategies that go through the self-argument tag.
TaggingStrategies == {"NoCaption", "Index", "ArgNames", "ArgTypes"}

\* The family mixes Value with at least one other kind.
ValueMixed == "Value" \in all_self_args /\ Cardinality(all_self_args) >= 2

\* C5 as claimed: in a family that mixes Value with another kind, name_suffix
\* fails with UnsupportedSelfArgCombination for whichever variant is captioned.
C5_Original ==
  (Captioned /\ caption_strategy \in TaggingStrategies /\ ValueMixed
     /\ self_arg_kind(m1).ok)
    => result = Err(UnsupportedSelfArgCombination)

\* C5 as amended: in such a family name_suffix fails with
\* UnsupportedSelfArgCombination exactly when the variant being captioned is
\* itself the Value variant, never for a ConstRef, MutRef or Static variant.
C5_FailsForValueVariantOnly ==
  (Captioned /\ caption_strategy \in TaggingStrategies /\ ValueMixed
     /\ self_arg_kind(m1).ok)
    => (result = Err(UnsupportedSelfArgCombination) <=> self_arg_kind(m1) = Ok("Value"))

\* A by-value method of a trait impl, captioned by argument types in a family
\* of Value and ConstRef: the combination failure, not the context failure.
C5_Witness ==
  /\ Captioned
  /\ caption_strategy = "ArgTypes"
  /\ m1.scope = ScopeTraitImpl
  /\ self_arg_kind(m1) = Ok("Value")
  /\ all_self_args = {"Value", "ConstRef"}
  /\ result = Err(UnsupportedSelfArgCombination)

\* The tag C6 gives a non-Value variant of kind k in a family of kinds K.
C6_Tag(k, K) ==
  IF Cardinality(K) = 1 \/ k = "ConstRef" THEN None
  ELSE IF k = "Static" THEN Some(S_static)
  ELSE IF "ConstRef" \in K THEN Some(S_mut) ELSE None

\* The suffix made of a tag and the one-digit index i.
TagThenIndex(tag, i) ==
  IF tag = None THEN Some(<<Digits[i + 1]>>)
  ELSE Some(tag[1] \o S_underscore \o <<Digits[i + 1]>>)

\* The suffix of variant m, returned as res at index i, carries the tag of C6.
C6_TagRule(m, res, i) ==
  (self_arg_kind(m).ok /\ self_arg_kind(m).val # "Value") =>
    /\ caption_strategy = "NoCaption" =>
         res = Ok(C6_Tag(self_arg_kind(m).val, all_self_args))
    /\ caption_strategy = "Index" =>
         res = Ok(TagThenIndex(C6_Tag(self_arg_kind(m).val, all_self_args), i))

\* C6: the tag of a non-Value variant depends on its kind and the family's
\* kind set only: none in a family of one kind or for ConstRef, "static" for
\* Static, "mut" for MutRef when the family holds ConstRef and none otherwise;
\* so two variants of different kinds in a family of ConstRef, MutRef and
\* Static kinds never both get an empty tag.
C6_TagByKindAndFamily ==
  Captioned =>
    /\ C6_TagRule(m1, result, index)
    /\ C6_TagRule(m2, result2, index + 1)
    /\ (/\ caption_strategy = "NoCaption"
        /\ self_arg_kind(m1).ok /\ self_arg_kind(m2).ok
        /\ self_arg_kind(m1) # self_arg_kind(m2)
        /\ all_self_args \subseteq {"ConstRef", "MutRef", "Static"})
       => ~(result = Ok(None) /\ result2 = Ok(None))

\* A MutRef and a Static variant in a family without ConstRef: the MutRef
\* variant has no tag, the Static one has "static".
C6_Witness ==
  /\ Captioned
  /\ caption_strategy = "NoCaption"
  /\ self_arg_kind(m1) = Ok("MutRef")
  /\ self_arg_kind(m2) = Ok("Static")
  /\ all_self_args = {"MutRef", "Static"}
  /\ result = Ok(None)
  /\ result2 = Ok(Some(S_static))

IsDigit(c) == \E d \in 1..10 : Digits[d] = c
DigitValue(c) == (CHOOSE d \in 1..10 : Digits[d] = c) - 1

RECURSIVE ParseDecimal(_)
\* The number a non-empty string of decimal digits denotes.
ParseDecimal(s) ==
  IF Len(s) = 1 THEN DigitValue(s[1])
  ELSE 10 * ParseDecimal(SubSeq(s, 1, Len(s) - 1)) + DigitValue(s[Len(s)])

\* What follows the last underscore of s (all of s when it has none).
AfterLastUnderscore(s) ==
  LET us == {i \in 1..Len(s) : s[i] = "_"}
      k == IF us = {} THEN 0 ELSE CHOOSE i \in us : \A j \in us : j <= i
  IN SubSeq(s, k + 1, Len(s))

\* s is the decimal numeral of n: digits only, no leading zero, value n.
IsDecimalOf(s, n) ==
  /\ Len(s) >= 1
  /\ \A i \in 1..Len(s) : IsDigit(s[i])
  /\ (Len(s) > 1 => s[1] # "0")
  /\ ParseDecimal(s) = n

\* C7 as claimed: under Index the variants at the indices 0, 1 and 2 get
\* exactly "0", "1" and "2", whatever their receiver form.
C7_Original ==
  (Captioned /\ caption_strategy = "Index" /\ index \in {0, 1, 2}
     /\ self_arg_kind(m1).ok /\ result.ok)
    => result = Ok(Some(<<Digits[index + 1]>>))

\* C7 as amended: under Index, in a family of a single self-argument kind
\* the suffix is exactly the decimal index ("0", "1", "2" at 0, 1, 2),
\* whatever the argument count, names and types; in every family a suffix
\* that is returned ends with the decimal index after any self-argument tag,
\* so distinct indices give distinct suffixes.
C7_IndexIsDecimalSuffix ==
  (Captioned /\ caption_strategy = "Index" /\ self_arg_kind(m1).ok) =>
    /\ Cardinality(all_self_args) = 1 =>
         /\ result.ok
         /\ result.val # None
         /\ IsDecimalOf(result.val[1], index)
         /\ index \in {0, 1, 2} => result = Ok(Some(<<Digits[index + 1]>>))
    /\ result.ok =>
         /\ result.val # None
         /\ IsDecimalOf(AfterLastUnderscore(result.val[1]), index)

\* The variant at index 10 of a family of MutRef variants, with arguments
\* after the receiver: its suffix is "10".
C7_Witness ==
  /\ Captioned
  /\ caption_strategy = "Index"
  /\ index = 10
  /\ self_arg_kind(m1) = Ok("MutRef")
  /\ all_self_args = {"MutRef"}
  /\ Len(m1.arguments) >= 2
  /\ result = Ok(Some(<<"1", "0">>))

\* The names of the arguments of m, in order.
ArgNamesOf(m) == [i \in 1..Len(m.arguments) |-> m.arguments[i].name]

\* A family made of one ConstRef variant m1 and one MutRef variant m2 with
\* identical argument names, captioned by argument names.
ConstAndMutPair ==
  /\ Captioned
  /\ caption_strategy = "ArgNames"
  /\ self_arg_kind(m1) = Ok("ConstRef")
  /\ self_arg_kind(m2) = Ok("MutRef")
  /\ all_self_args = {"ConstRef", "MutRef"}
  /\ ArgNamesOf(m1) = ArgNamesOf(m2)

\* C8 as claimed: the suffixes are "mut" and None respectively.
C8_Original ==
  ConstAndMutPair => (result = Ok(Some(S_mut)) /\ result2 = Ok(None))

\* C8 as amended: the ConstRef variant gets the caption of the argument
\* names alone and the MutRef variant the same caption after "mut_"; neither
\* suffix is None, so the two never share an empty suffix.
C8_MutPrefixesNamesCaption ==
  ConstAndMutPair =>
    /\ result.ok /\ result2.ok
    /\ result.val # None
    /\ result2 = Ok(Some(S_mut \o S_underscore \o result.val[1]))

\* Such a pair with an argument x after the receiver.
C8_Witness ==
  /\ ConstAndMutPair
  /\ Len(m1.arguments) = 2
  /\ m1.arguments[2].name = S_x
  /\ result2.ok
  /\ result2.val # None

\* C9 as claimed: under NoCaption name_suffix returns None for every
\* variant, scope and family kind set.
C9_Original ==
  (Captioned /\ caption_strategy = "NoCaption" /\ self_arg_kind(m1).ok /\ result.ok)
    => result = Ok(None)

\* C9 as amended: under NoCaption name_suffix returns None for every variant
\* and scope when the family has a single self-argument kind, as for two free
\* function overloads; in a family of several kinds it returns the bare
\* self-argument tag, "static" or "mut", for the variants that have one.
C9_NoCaptionGivesTagOnly ==
  (Captioned /\ caption_strategy = "NoCaption" /\ self_arg_kind(m1).ok) =>
    LET kind == self_arg_kind(m1).val IN
    IF Cardinality(all_self_args) = 1 THEN result = Ok(None)
    ELSE /\ kind = "Static" => result = Ok(Some(S_static))
         /\ kind = "MutRef" =>
              result = Ok(IF "ConstRef" \in all_self_args THEN Some(S_mut) ELSE None)
         /\ kind = "ConstRef" => result = Ok(None)
         /\ kind = "Value" => ~result.ok

\* A free function without receiver and with an argument, in a family of
\* Static variants: no suffix.
C9_Witness ==
  /\ Captioned
  /\ caption_strategy = "NoCaption"
  /\ m1.scope = ScopeFree
  /\ Len(m1.arguments) = 1
  /\ self_arg_kind(m1) = Ok("Static")
  /\ all_self_args = {"Static"}
  /\ result = Ok(None)

\* m takes no arguments, not counting a receiver.
NoArgsBesidesReceiver(m) ==
  \/ Len(m.arguments) = 0
  \/ (Len(m.arguments) = 1 /\ m.arguments[1].name = S_self)

\* C10: under ArgNames the strategy part of the suffix is "no_args" whenever
\* the variant takes no arguments besides the receiver, for a method whose
\* only argument is self as for one with an empty argument list.
C10_NoArgsBesidesReceiver ==
  (Captioned /\ caption_strategy = "ArgNames" /\ result.ok /\ NoArgsBesidesReceiver(m1))
    => /\ result.val # None
       /\ result.val[1] \in {S_no_args,
                             S_static \o S_underscore \o S_no_args,
                             S_mut \o S_underscore \o S_no_args}

(***************************** trait impl captions: C11 ********************)
\* name_suffix was asked for an ArgTypes caption of a trait impl method.
ArgTypesOnTraitImpl ==
  Captioned /\ caption_strategy = "ArgTypes" /\ m1.scope = ScopeTraitImpl

\* C11 as claimed: ArgTypes on a trait impl method fails with
\* UnsupportedCaptionContext whatever the arguments, the receiver form and
\* the family's kind set are.
C11_Original ==
  ArgTypesOnTraitImpl => result = Err(UnsupportedCaptionContext)

\* C11 as amended: ArgTypes on a trait impl method always fails and returns
\* no suffix; the failure is UnsupportedCaptionContext unless the receiver
\* is invalid (InvalidSelfArgument) or the variant is a Value variant in a
\* family that has not exactly one kind (UnsupportedSelfArgCombination),
\* which are found first.
C11_TraitImplAlwaysFails ==
  ArgTypesOnTraitImpl =>
    /\ ~result.ok
    /\ result = IF ~self_arg_kind(m1).ok THEN Err(InvalidSelfArgument)
                ELSE IF self_arg_kind(m1).val = "Value" /\ Cardinality(all_self_args) # 1
                     THEN Err(UnsupportedSelfArgCombination)
                     ELSE Err(UnsupportedCaptionContext)

\* A trait impl method without any argument, in a family of Static variants:
\* the context failure.
C11_Witness ==
  /\ ArgTypesOnTraitImpl
  /\ Len(m1.arguments) = 0
  /\ all_self_args = {"Static"}
  /\ result = Err(UnsupportedCaptionContext)

(***************************** failure run *********************************)
\* One variant m1 next to a sibling m2: the checker is applied with m1 on
\* either side, and name_suffix is applied to m1.
PropagateMethods ==
  {RustSingleMethod(ScopeFree, u, FnName, h \o t) :
     u \in BOOLEAN, h \in ReceiverHeads, t \in SeqsUpTo(SuffixArgs, MaxArgs)}

InitPropagate ==
  /\ m1 \in PropagateMethods
  /\ m2 \in PropagateMethods
  /\ caption_strategy \in RustMethodCaptionStrategy
  /\ all_self_args \in FamilyKindSets({m1, m2})
  /\ index = 0
  /\ pc = "init"
  /\ result = None
  /\ result2 = None
  /\ orig = m1
  /\ AuxIdle

\* m2.can_be_overloaded_with(&m1)
CanBeOverloadedWithReversed ==
  /\ pc = "init"
  /\ result' = can_be_overloaded_with(m2, m1)
  /\ pc' = "checked_reversed"
  /\ UNCHANGED <<m1, m2, caption_strategy, all_self_args, index, result2, orig>>
  /\ UNCHANGED aux

NextPropagate == CanBeOverloadedWith \/ CanBeOverloadedWithReversed \/ NameSuffix

SpecPropagate == InitPropagate /\ [][NextPropagate]_vars

(***************************** failures: C12 *******************************)
\* The receiver of m1 is invalid and an operation was applied to m1.
InvalidReceiverUsed ==
  /\ pc \in {"checked", "checked_reversed", "captioned"}
  /\ m1.arguments # <<>>
  /\ m1.arguments[1].name = S_self
  /\ ReceiverForm(m1.arguments[1].argument_type.rust_api_type) = "other"

\* C12 as claimed: every operation applied to a variant with an invalid
\* receiver returns the classifier's failure, whatever the unsafety flags
\* and the caption strategy are.
C12_Original ==
  InvalidReceiverUsed => result = Err(InvalidSelfArgument)

\* C12 as amended: can_be_overloaded_with returns the failure, with the
\* variant on either side, when the two unsafety flags are equal, and
\* Ok(false) without classifying when they differ; name_suffix returns the
\* failure under every strategy but UnsafeOnly, which returns "unsafe" or
\* None without classifying.
C12_FailureWhereClassified ==
  InvalidReceiverUsed =>
    /\ pc \in {"checked", "checked_reversed"} =>
         result = IF m1.is_unsafe = m2.is_unsafe
                  THEN Err(InvalidSelfArgument) ELSE Ok(FALSE)
    /\ pc = "captioned" =>
         result = IF caption_strategy # "UnsafeOnly" THEN Err(InvalidSelfArgument)
                  ELSE Ok(IF m1.is_unsafe THEN Some(S_unsafe) ELSE None)

\* The checker applied to a valid const method, with the invalid variant as
\* the other method and equal unsafety flags: the failure is returned.
C12_Witness ==
  /\ InvalidReceiverUsed
  /\ pc = "checked_reversed"
  /\ m1.is_unsafe = m2.is_unsafe
  /\ self_arg_kind(m2) = Ok("ConstRef")
  /\ result = Err(InvalidSelfArgument)

(***************************** composition: C13 ****************************)
\* C13: the suffix name_suffix returns is the self-argument tag and the
\* strategy's tag joined by one underscore; it is None when neither part
\* contributes, and otherwise a non-empty string that neither starts nor
\* ends with an underscore.
C13_SuffixWellFormed ==
  (Captioned /\ result.ok /\ result.val # None) =>
    /\ Len(result.val[1]) > 0
    /\ result.val[1][1] # "_"
    /\ result.val[1][Len(result.val[1])] # "_"

(***************************** method records ******************************)
\* The data of core, as the actions of the other components leave it.
coreData == <<m1, m2, caption_strategy, all_self_args, index, result, result2, orig>>

\* No method is classified, checked or captioned.
CoreIdle ==
  /\ m1 = NoMethod
  /\ m2 = NoMethod
  /\ caption_strategy = "NoCaption"
  /\ all_self_args = {}
  /\ index = 0
  /\ result = None
  /\ result2 = None
  /\ orig = NoMethod

\* CppMethodDoc (the field the modelled operations read)
CppMethodDoc(cross_references) == [cross_references |-> cross_references]

\* RustMethodDocItem
RustMethodDocItem(doc, rust_fns, cpp_fn, rust_cross_references) ==
  [doc |-> doc, rust_fns |-> rust_fns, cpp_fn |-> cpp_fn,
   rust_cross_references |-> rust_cross_references]

\* RustMethodArgumentsVariant
RustMethodArgumentsVariant(arguments, cpp_method, return_type_ffi_index, return_type) ==
  [arguments |-> arguments, cpp_method |-> cpp_method,
   return_type_ffi_index |-> return_type_ffi_index, return_type |-> return_type]

\* RustSingleMethod with its arguments variant and its documentation.
RustSingleMethodFull(scope, is_unsafe, name, arguments, doc) ==
  [scope |-> scope, is_unsafe |-> is_unsafe, name |-> name,
   arguments |-> arguments, doc |-> doc]

\* RustMethodArguments::SingleVariant
SingleVariant(variant) == [kind |-> "SingleVariant", variant |-> variant]

\* RustMethodArguments::MultipleVariants
MultipleVariants(trait_name, lifetime, return_type, shared_arguments, arg_name, cpp_name) ==
  [kind |-> "MultipleVariants",
   params_trait_name |-> trait_name,
   params_trait_lifetime |-> lifetime,
   params_trait_return_type |-> return_type,
   shared_arguments |-> shared_arguments,
   variant_argument_name |-> arg_name,
   cpp_method_name |-> cpp_name]

\* RustMethod
RustMethod(scope, is_unsafe, name, arguments, docs) ==
  [scope |-> scope, is_unsafe |-> is_unsafe, name |-> name,
   arguments |-> arguments, docs |-> docs]

\* RustTypeDeclarationKind::MethodParametersTrait
MethodParametersTrait(lifetime, shared_arguments, return_type, impls, scope, name, is_unsafe) ==
  [lifetime |-> lifetime, shared_arguments |-> shared_arguments,
   return_type |-> return_type, impls |-> impls,
   method_scope |-> scope, method_name |-> name, is_unsafe |-> is_unsafe]

(***************************** promotion ***********************************)
\* to_rust_method that marks every method safe.
to_rust_method_safe(self) ==
  RustMethod(self.scope, FALSE, self.name, SingleVariant(self.arguments),
             IF self.doc # None THEN <<self.doc[1]>> ELSE <<>>)

\* RustSingleMethod::to_rust_method
to_rust_method(self) ==
  RustMethod(self.scope, self.is_unsafe, self.name, SingleVariant(self.arguments),
             IF self.doc # None THEN <<self.doc[1]>> ELSE <<>>)

\* The number of leading arguments all the variants of ms share.
SharedCount(ms) ==
  LET shared(k) == \A i \in 1..Len(ms) :
                     /\ Len(ms[i].arguments.arguments) >= k
                     /\ SubSeq(ms[i].arguments.arguments, 1, k)
                          = SubSeq(ms[1].arguments.arguments, 1, k)
      ks == {k \in 0..Len(ms[1].arguments.arguments) : shared(k)}
  IN CHOOSE k \in ks : \A j \in ks : j <= k

S_params == <<"P", "a", "r", "a", "m", "s">>
S_args == <<"a", "r", "g", "s">>

\* The Method/Trait Assembler for a family of several variants: the method
\* carries the shared leading arguments, the trait declaration carries one
\* impl per variant with the arguments that follow them.
to_multiple_variants(ms) ==
  LET k == SharedCount(ms)
      shared_arguments == SubSeq(ms[1].arguments.arguments, 1, k)
      return_type ==
        IF \A i \in 1..Len(ms) : ms[i].arguments.return_type = ms[1].arguments.return_type
        THEN Some(ms[1].arguments.return_type.rust_api_type) ELSE None
      impls == [i \in 1..Len(ms) |->
                 [ms[i].arguments EXCEPT
                    !.arguments = SubSeq(@, k + 1, Len(@))]]
      docs == [i \in 1..Len(ms) |-> ms[i].doc]
  IN [method |->
        RustMethod(ms[1].scope, ms[1].is_unsafe, ms[1].name,
                   MultipleVariants(ms[1].name \o S_params, None, return_type,
                                    shared_arguments, S_args, ms[1].arguments.cpp_method),
                   join(docs, <<>>)),
      params_trait |->
        Some(MethodParametersTrait(None, shared_arguments, return_type, impls,
                                   ms[1].scope, ms[1].name \o S_params,
                                   ms[1].is_unsafe))]

\* The variants of an assembled method, each with its whole argument list.
flatten(meth, trait) ==
  IF meth.arguments.kind = "SingleVariant" THEN <<meth.arguments.variant>>
  ELSE [i \in 1..Len(trait[1].impls) |->
         [trait[1].impls[i] EXCEPT
            !.arguments = meth.arguments.shared_arguments \o @]]

\* Largest number of variants in a family.
MaxVariants == 2

DocOf(cpp_fn) == RustMethodDocItem(Some(CppMethodDoc(<<>>)), <<FnName>>, cpp_fn, <<>>)

\* The native methods the variants come from: link, return type, documentation.
Natives ==
  {[cpp_method |-> "QPoint::f(int)", return_type |-> T_int,
    return_type_ffi_index |-> None, doc |-> Some(DocOf("f(int)"))],
   [cpp_method |-> "QPoint::f()", return_type |-> T_value,
    return_type_ffi_index |-> Some(1), doc |-> None]}

PromoteHeads ==
  {<<>>, <<RustMethodArgument(S_self, T_const_ref, Some(0))>>,
         <<RustMethodArgument(S_self, T_mut_ref, Some(0))>>}

\* What the assembler gets for one variant: its arguments and its native method.
VariantInputs ==
  [args : {h \o t : h \in PromoteHeads, t \in SeqsUpTo(SuffixArgs, MaxArgs)},
   native : Natives]

\* The family the assembler gets: variants of one name, scope and unsafety.
Family(u, v) ==
  [i \in DOMAIN v |->
     RustSingleMethodFull(ScopeFree, u, FnName,
       RustMethodArgumentsVariant(v[i].args, v[i].native.cpp_method,
         v[i].native.return_type_ffi_index, v[i].native.return_type),
       v[i].native.doc)]

InitPromote ==
  /\ CoreIdle
  /\ pc = "init"
  /\ \E u \in BOOLEAN, n \in 1..MaxVariants :
       \E v \in [1..n -> VariantInputs] : singles = Family(u, v)
  /\ method = <<>>
  /\ params_trait = <<>>
  /\ flat = <<>>
  /\ table = <<>>
  /\ before = <<>>
  /\ native_enum = <<>>
  /\ type_info = <<>>

\* A single variant is promoted by to_rust_method, several by the assembler.
Promote ==
  /\ pc = "init"
  /\ IF Len(singles) = 1
     THEN /\ method' = to_rust_method(singles[1])
          /\ params_trait' = None
     ELSE /\ method' = to_multiple_variants(singles).method
          /\ params_trait' = to_multiple_variants(singles).params_trait
  /\ pc' = "promoted"
  /\ UNCHANGED <<coreData, singles, flat, table, before, native_enum, type_info>>

Flatten ==
  /\ pc = "promoted"
  /\ flat' = flatten(method, params_trait)
  /\ pc' = "flattened"
  /\ UNCHANGED <<coreData, singles, method, params_trait, table, before,
                 native_enum, type_info>>

NextPromote == Promote \/ Flatten

SpecPromote == InitPromote /\ [][NextPromote]_vars

CppEnumValueDocItem(variant_name, doc) == [variant_name |-> variant_name, doc |-> doc]

\* RustEnumValue
RustEnumValue(name, value, cpp_docs, is_dummy) ==
  [name |-> name, value |-> value, cpp_docs |-> cpp_docs, is_dummy |-> is_dummy]

\* RustTypeWrapperKind::Enum
Enum(values, is_flaggable) ==
  [kind |-> "Enum", values |-> values, is_flaggable |-> is_flaggable]

S_invalid == <<"_", "I", "n", "v", "a", "l", "i", "d">>

\* The builder without the second value for an enumeration of one value.
process_enum_unpadded(native, is_flaggable) ==
  Enum([i \in 1..Len(native) |->
          RustEnumValue(native[i].name, native[i].value,
                        <<CppEnumValueDocItem(native[i].name, None)>>, FALSE)],
       is_flaggable)

\* The Type Descriptor Builder for a native enumeration: its values in
\* declaration order, and after a single value a synthetic second one.
process_enum(native, is_flaggable) ==
  LET values == [i \in 1..Len(native) |->
                   RustEnumValue(native[i].name, native[i].value,
                                 <<CppEnumValueDocItem(native[i].name, None)>>, FALSE)]
      dummy == RustEnumValue(S_invalid, IF native[1].value = 0 THEN 1 ELSE 0, <<>>, TRUE)
  IN Enum(IF Len(native) = 1 THEN values \o <<dummy>> ELSE values, is_flaggable)

\* Largest number of values of a native enumeration.
MaxEnumValues == 3

\* The values a native enumeration may declare.
NativeEnumValues == [name : {<<"A">>, <<"B">>, <<"C">>}, value : {0, 1}]

InitEnum ==
  /\ CoreIdle
  /\ pc = "init"
  /\ native_enum \in SeqsUpTo(NativeEnumValues, MaxEnumValues)
  /\ type_info = <<>>
  /\ singles = <<>>
  /\ method = <<>>
  /\ params_trait = <<>>
  /\ flat = <<>>
  /\ table = <<>>
  /\ before = <<>>

ProcessEnum ==
  /\ pc = "init"
  /\ \E is_flaggable \in BOOLEAN : type_info' = process_enum(native_enum, is_flaggable)
  /\ pc' = "built"
  /\ UNCHANGED <<coreData, singles, method, params_trait, flat, table, before, native_enum>>

NextEnum == ProcessEnum

SpecEnum == InitEnum /\ [][NextEnum]_vars

(***************************** enumerations: C15 ***************************)
\* C15: the descriptor built from a native enumeration with exactly one
\* value has exactly two values, the first not dummy and the second a
\* synthetic dummy one; no Enum descriptor has a single value.
C15_SingleValueEnumPadded ==
  pc = "built" =>
    /\ Len(type_info.values) # 1
    /\ Len(native_enum) = 1 =>
         /\ Len(type_info.values) = 2
         /\ ~type_info.values[1].is_dummy
         /\ type_info.values[1].name = native_enum[1].name
         /\ type_info.values[1].value = native_enum[1].value
         /\ type_info.values[2].is_dummy

\* The enumeration with the single value B = 0, built.
C15_Witness ==
  /\ pc = "built"
  /\ native_enum = <<[name |-> <<"B">>, value |-> 0]>>
  /\ Len(type_info.values) = 2
  /\ type_info.values[2].is_dummy

(***************************** cross-reference linker **********************)
\* RustCrossReference
RustCrossReference(name, kind) == [name |-> name, kind |-> kind]

\* The entries of the table for the references it has, in their order.
table_entries(cross_references, tbl) ==
  LET present == SelectSeq(cross_references, LAMBDA reference : reference \in DOMAIN tbl)
  IN [j \in 1..Len(present) |-> tbl[present[j]]]

\* The entries found for the first n documentation items, one after another.
RECURSIVE entries_up_to(_, _, _)
entries_up_to(docs, tbl, n) ==
  IF n = 0 THEN <<>>
  ELSE entries_up_to(docs, tbl, n - 1) \o
       (IF docs[n].doc = None THEN <<>>
        ELSE table_entries(docs[n].doc[1].cross_references, tbl))

\* add_rust_cross_references with one result list for all documentation
\* items instead of a fresh one for each.
add_rust_cross_references_shared_result(self, tbl) ==
  [self EXCEPT !.docs =
     [i \in 1..Len(self.docs) |->
        [self.docs[i] EXCEPT !.rust_cross_references = entries_up_to(self.docs, tbl, i)]]]

\* RustMethod::add_rust_cross_references
add_rust_cross_references(self, tbl) ==
  [self EXCEPT !.docs =
     [i \in 1..Len(self.docs) |->
        LET doc == self.docs[i]
            found == IF doc.doc = None THEN <<>>
                     ELSE table_entries(doc.doc[1].cross_references, tbl)
        IN [doc EXCEPT !.rust_cross_references = found]]]

\* Largest number of documentation items of a method.
MaxDocs == 2
\* Largest number of native cross-references of a documentation item.
MaxRefs == 2

\* Anchors of the native documentation.
Anchors == {"#a", "#b"}

R_type == RustCrossReference(<<"QPoint">>, [kind |-> "Type"])
R_method == RustCrossReference(FnName, [kind |-> "Method", scope |-> ScopeFree])

\* The lookup tables: every partial map from anchors to cross-references.
Tables == UNION {[keys -> {R_type, R_method}] : keys \in SUBSET Anchors}

\* The documentation items an assembled method may carry.
DocItems ==
  {RustMethodDocItem(doc, <<FnName>>, "f(int)", rust_cross_references) :
     doc \in {None} \cup {Some(CppMethodDoc(refs)) : refs \in SeqsUpTo(Anchors, MaxRefs)},
     rust_cross_references \in {<<>>, <<R_type>>}}

LinkVariant ==
  RustMethodArgumentsVariant(<<RustMethodArgument(S_self, T_const_ref, Some(0))>>,
                             "QPoint::f(int)", None, T_int)

InitLink ==
  /\ CoreIdle
  /\ pc = "init"
  /\ method \in {RustMethod(ScopeFree, TRUE, FnName, SingleVariant(LinkVariant), docs) :
                   docs \in SeqsUpTo(DocItems, MaxDocs)}
  /\ table \in Tables
  /\ before = <<>>
  /\ singles = <<>>
  /\ params_trait = <<>>
  /\ flat = <<>>
  /\ native_enum = <<>>
  /\ type_info = <<>>

\* One pass of the linker; the caller may run it again with the same table.
AddRustCrossReferences ==
  /\ pc \in {"init", "linked"}
  /\ before' = [method |-> method, table |-> table]
  /\ method' = add_rust_cross_references(method, table)
  /\ pc' = IF pc = "init" THEN "linked" ELSE "relinked"
  /\ UNCHANGED <<coreData, singles, params_trait, flat, table, native_enum, type_info>>

NextLink == AddRustCrossReferences

SpecLink == InitLink /\ [][NextLink]_vars

(***************************** cross references: C16 ***********************)
\* The table entries of the references, in order, missing keys skipped.
RECURSIVE Resolved(_, _)
Resolved(refs, tbl) ==
  IF refs = <<>> THEN <<>>
  ELSE (IF Head(refs) \in DOMAIN tbl THEN <<tbl[Head(refs)]>> ELSE <<>>)
       \o Resolved(Tail(refs), tbl)

\* C16: a pass changes only rust_cross_references: scope, unsafety flag,
\* name, arguments, the number and order of the documentation items and
\* each item's doc, rust_fns and cpp_fn are as before, and so is the table;
\* each item's rust_cross_references is the table entries of its native
\* cross-references in order, missing keys skipped, empty without native
\* documentation; a second pass with the same table changes nothing.
C16_OnlyCrossReferencesRewritten ==
  /\ pc \in {"linked", "relinked"} =>
       /\ method.scope = before.method.scope
       /\ method.is_unsafe = before.method.is_unsafe
       /\ method.name = before.method.name
       /\ method.arguments = before.method.arguments
       /\ table = before.table
       /\ Len(method.docs) = Len(before.method.docs)
       /\ \A i \in 1..Len(method.docs) :
            /\ method.docs[i].doc = before.method.docs[i].doc
            /\ method.docs[i].rust_fns = before.method.docs[i].rust_fns
            /\ method.docs[i].cpp_fn = before.method.docs[i].cpp_fn
            /\ method.docs[i].rust_cross_references =
                 IF before.method.docs[i].doc = None THEN <<>>
                 ELSE Resolved(before.method.docs[i].doc[1].cross_references, table)
  /\ pc = "relinked" => method = before.method

\* Two items with stale links: the first has a found and a missing
\* reference, the second no native documentation; the pass has run twice.
C16_Witness ==
  /\ pc = "relinked"
  /\ Len(method.docs) = 2
  /\ DOMAIN table = {"#a"}
  /\ method.docs[1].doc = Some(CppMethodDoc(<<"#b", "#a">>))
  /\ method.docs[2].doc = None
  /\ method.docs[1].rust_cross_references = <<table["#a"]>>
  /\ method.docs[2].rust_cross_references = <<>>

====
